---- MODULE Spec2Model ----
(***************************************************************************)
(* Model of clang-build's project construction (clang_build/project.py)    *)
(* and target construction (clang_build/target.py).                        *)
(*                                                                         *)
(* Strings whose content the code inspects (configuration keys,            *)
(* target_type) are sequences of one-character strings, so that            *)
(* str.startswith and str.lower are computed and not assumed.  Paths are   *)
(* sequences of path components, so that Path.resolve is computed.         *)
(***************************************************************************)
EXTENDS Integers, Sequences, FiniteSets, TLC

VARIABLES
    config,        \* the configuration mapping handed to Project.__init__
    environment,   \* the Environment: build_type, platform, hash seed
    fs,            \* what the filesystem collaborators answer, per target key
    pc,            \* position of Project.__init__
    exit_code,     \* 0 while running / returned, 1 after sys.exit(1)
    exception,     \* "" or the name of the uncaught exception
    log,           \* records handed to environment.logger.error
    target_names,  \* the dependency walk
    target_list,   \* Project.target_list
    has_target_list,   \* whether the attribute target_list has been assigned
    multiple_targets,  \* the local multiple_targets
    pos,           \* number of walk entries the loop has visited
    multiple_projects,     \* the argument multiple_projects of Project.__init__
    force_build,           \* environment.force_build
    before_compile_script, \* whether the target names a before_compile script
    pool_size,             \* number of worker processes of the process pool
    buildables,            \* Compilable.buildables
    needed_buildables,     \* Compilable.needed_buildables
    cpc,                   \* position of Compilable.compile
    task_queue,            \* tasks handed to the pool that no worker has taken
    in_progress,           \* per worker: the task it is working on
    results,               \* results the workers have returned to the driver
    invocations,           \* the scripts and commands that have been started
    failed_commands,       \* the commands that have ended in failure
    unsuccessful_builds,   \* Compilable.unsuccessful_builds
    environment_tests,     \* environment.tests
    environment_examples,  \* environment.examples
    secondary_files,       \* what source discovery answers for tests and examples
    test_targets,          \* Target.test_targets, per position of the owner
    example_targets,       \* Target.example_targets, per position of the owner
    spc,                   \* position of the creation of secondary targets
    returned               \* what a call of Project.get_targets has returned

project_vars == <<config, environment, fs, pc, exit_code, exception, log,
                  target_names, target_list, has_target_list, multiple_targets, pos,
                  multiple_projects>>

compile_vars == <<force_build, before_compile_script, pool_size, buildables,
                  needed_buildables, cpc, task_queue, in_progress, results,
                  invocations, failed_commands, unsuccessful_builds>>

secondary_vars == <<environment_tests, environment_examples, secondary_files,
                    test_targets, example_targets, spc>>

vars == <<project_vars, compile_vars, secondary_vars, returned>>

----------------------------------------------------------------------------
(* Bounds *)

MaxTargets == 3
MaxDeps == 2

----------------------------------------------------------------------------
(* Generic sequence helpers *)

Range(s) == {s[i] : i \in 1..Len(s)}

RECURSIVE Concat(_)
Concat(ss) == IF ss = <<>> THEN <<>> ELSE Head(ss) \o Concat(Tail(ss))

IndexOf(s, x) == IF \E i \in 1..Len(s) : s[i] = x
                 THEN CHOOSE i \in 1..Len(s) : s[i] = x /\ \A j \in 1..(i-1) : s[j] # x
                 ELSE 0

Reverse(s) == [i \in 1..Len(s) |-> s[Len(s) + 1 - i]]

NoDup(s) == \A i, j \in 1..Len(s) : i # j => s[i] # s[j]

----------------------------------------------------------------------------
(* Strings as character sequences *)

s_name       == <<"n","a","m","e">>
s_subproject == <<"s","u","b","p","r","o","j","e","c","t">>
s_project    == <<"p","r","o","j","e","c","t">>

s_app        == <<"a","p","p">>
s_lib        == <<"l","i","b">>
s_hdr        == <<"h","d","r">>
s_util       == <<"u","t","i","l">>
s_projectx   == <<"p","r","o","j","e","c","t","x">>
s_ghost      == <<"g","h","o","s","t">>

s_executable     == <<"e","x","e","c","u","t","a","b","l","e">>
s_shared_library == <<"s","h","a","r","e","d"," ","l","i","b","r","a","r","y">>
s_static_library == <<"s","t","a","t","i","c"," ","l","i","b","r","a","r","y">>
s_header_only    == <<"h","e","a","d","e","r"," ","o","n","l","y">>

s_Executable     == <<"E","x","e","c","u","t","a","b","l","e">>
s_Shared_Library == <<"S","h","a","r","e","d"," ","L","i","b","r","a","r","y">>
s_STATIC_LIBRARY == <<"S","T","A","T","I","C"," ","L","I","B","R","A","R","Y">>
s_Header_Only    == <<"H","e","a","d","e","r"," ","O","n","l","y">>
s_plugin         == <<"p","l","u","g","i","n">>

\* str.startswith
StartsWith(s, prefix) ==
    /\ Len(s) >= Len(prefix)
    /\ SubSeq(s, 1, Len(prefix)) = prefix

UpperToLower ==
    [c \in {"A","B","C","E","H","I","L","O","R","S","T","Y"} |->
        CASE c = "A" -> "a" [] c = "B" -> "b" [] c = "C" -> "c"
          [] c = "E" -> "e" [] c = "H" -> "h" [] c = "I" -> "i"
          [] c = "L" -> "l" [] c = "O" -> "o" [] c = "R" -> "r"
          [] c = "S" -> "s" [] c = "T" -> "t" [] c = "Y" -> "y"]

\* str.lower
Lower(s) == [i \in 1..Len(s) |->
                IF s[i] \in DOMAIN UpperToLower THEN UpperToLower[s[i]] ELSE s[i]]

----------------------------------------------------------------------------
(* The configuration mapping *)

\* The keys of the mapping: "name" when the project is named, the target
\* definitions in declaration order, "subproject" when subprojects are given.
ConfigKeys(c) ==
    (IF c.name # "" THEN <<s_name>> ELSE <<>>)
    \o c.keys
    \o (IF c.subprojects # <<>> THEN <<s_subproject>> ELSE <<>>)

IsProjectKey(k) == StartsWith(k, s_project)
IsNotProjectKey(k) == ~StartsWith(k, s_project)

\* self.targets_config: every key that does not start with "project"
SelfTargetsConfig(c) == SelectSeq(ConfigKeys(c), IsNotProjectKey)

\* self.subprojects_config: every key that starts with "project"
SelfSubprojectsConfig(c) == SelectSeq(ConfigKeys(c), IsProjectKey)

IsTargetKey(k) == k # s_subproject /\ k # s_name
IsSubprojectKey(k) == k = s_subproject

\* targets_config: every key other than "subproject" and "name"
TargetsConfig(c) == SelectSeq(ConfigKeys(c), IsTargetKey)

\* subprojects_config: the "subproject" key
SubprojectsConfig(c) == SelectSeq(ConfigKeys(c), IsSubprojectKey)

\* First anonymous-project check: both key classes are non-empty
PrefixMixRejected(c) ==
    SelfTargetsConfig(c) # <<>> /\ SelfSubprojectsConfig(c) # <<>>

\* Second anonymous-project check
AnonymousRejected(c) ==
    (TargetsConfig(c) # <<>> /\ c.name = "") /\ SubprojectsConfig(c) # <<>>

\* multiple_targets: computed from self.targets_config
MultipleTargets(c) == Len(SelfTargetsConfig(c)) > 1

\* project_node.get('dependencies', [])
Dependencies(c, k) == c.defs[k].dependencies

----------------------------------------------------------------------------
(* Dependency analyser (dependency_tools): the module is imported by       *)
(* project.py but is not part of the sources at hand; it is modelled from  *)
(* section 4.2 of the specification.                                       *)

\* non_existent_dependencies: (target, missing name) pairs, declaration order
RECURSIVE MissingOf(_, _, _)
MissingOf(c, t, deps) ==
    IF deps = <<>> THEN <<>>
    ELSE (IF Head(deps) \in Range(TargetsConfig(c)) THEN <<>> ELSE << <<t, Head(deps)>> >>)
         \o MissingOf(c, t, Tail(deps))

RECURSIVE MissingAll(_, _)
MissingAll(c, ks) ==
    IF ks = <<>> THEN <<>>
    ELSE MissingOf(c, Head(ks), Dependencies(c, Head(ks))) \o MissingAll(c, Tail(ks))

find_non_existent_dependencies(c) == MissingAll(c, TargetsConfig(c))

\* The traversal descends from a target to the targets that depend on it, in
\* declaration order: section 4.2 states that emission on black-marking
\* yields the reverse of a topological ordering, and a topological ordering
\* is one where every dependency precedes its dependants.
Dependants(c, n) ==
    SelectSeq(TargetsConfig(c), LAMBDA t : n \in Range(Dependencies(c, t)))

\* The edges of the cycle closed by the edge from the top of the stack to the
\* in-stack node s, each as a (target, dependency) pair.
CycleEdges(stack, s) ==
    LET first == IndexOf(stack, s)
        path  == SubSeq(stack, first, Len(stack))
    IN  [i \in 1..Len(path) |->
            IF i < Len(path) THEN <<path[i + 1], path[i]>>
                             ELSE <<s, path[Len(path)]>>]

RECURSIVE Visit(_, _, _), VisitAll(_, _, _)

\* Three-colour marking: unseen / in-stack / done
VisitAll(c, succs, st) ==
    IF succs = <<>> THEN st
    ELSE LET s == Head(succs)
             st1 == CASE st.colour[s] = "done" -> st
                      [] st.colour[s] = "in-stack" ->
                            [st EXCEPT !.cycles = Append(@, CycleEdges(st.stack, s))]
                      [] OTHER -> Visit(c, s, st)
         IN  VisitAll(c, Tail(succs), st1)

Visit(c, n, st) ==
    LET entered == [st EXCEPT !.colour[n] = "in-stack", !.stack = Append(@, n)]
        after   == VisitAll(c, Dependants(c, n), entered)
    IN  [after EXCEPT !.colour[n] = "done",
                      !.stack = SubSeq(@, 1, Len(@) - 1),
                      !.out = Append(@, n)]

RECURSIVE Roots(_, _, _)
Roots(c, ks, st) ==
    IF ks = <<>> THEN st
    ELSE Roots(c, Tail(ks),
               IF st.colour[Head(ks)] = "unseen" THEN Visit(c, Head(ks), st) ELSE st)

Traverse(c) ==
    Roots(c, TargetsConfig(c),
          [colour |-> [k \in Range(TargetsConfig(c)) |-> "unseen"],
           stack |-> <<>>, out |-> <<>>, cycles |-> <<>>])

\* circular_dependencies: a list of cycles, each a list of edges
find_circular_dependencies(c) == Traverse(c).cycles

\* walk: the emission order, reversed
get_dependency_walk(c) == Reverse(Traverse(c).out)

----------------------------------------------------------------------------
(* Paths *)

\* environment.workingdir, the root directory of every target of the project
WorkingDir == <<"w">>

\* Path.joinpath
JoinPath(p, component) == IF component = "" THEN p ELSE Append(p, component)

\* Path.resolve: "." components are dropped, ".." drops the component before
RECURSIVE ResolveFrom(_, _)
ResolveFrom(acc, rest) ==
    IF rest = <<>> THEN acc
    ELSE CASE Head(rest) = "." -> ResolveFrom(acc, Tail(rest))
           [] Head(rest) = ".." ->
                ResolveFrom(IF Len(acc) > 1 THEN SubSeq(acc, 1, Len(acc) - 1) ELSE acc,
                            Tail(rest))
           [] OTHER -> ResolveFrom(Append(acc, Head(rest)), Tail(rest))

Resolve(p) == ResolveFrom(<<>>, p)

\* environment.build_directory
BuildDirectory == <<"build">>

s_projecty == <<"p","r","o","j","e","c","t","y">>

\* A target name as the text of a path component or of a file name
AsText(k) ==
    CASE k = s_app      -> "app"
      [] k = s_lib      -> "lib"
      [] k = s_hdr      -> "hdr"
      [] k = s_util     -> "util"
      [] k = s_projectx -> "projectx"
      [] k = s_projecty -> "projecty"
      [] k = <<"test">> -> "test"
      [] k = <<"test_", "one">>      -> "test_one"
      [] k = <<"test_", "two">>      -> "test_two"
      [] k = <<"test_", "three">>    -> "test_three"
      [] k = <<"example_", "one">>   -> "example_one"
      [] k = <<"example_", "two">>   -> "example_two"
      [] k = <<"example_", "three">> -> "example_three"
      [] OTHER          -> "other"

ResolveAll(ps) == [i \in 1..Len(ps) |-> Resolve(ps[i])]

----------------------------------------------------------------------------
(* list(set(...)): the iteration order of a set of strings or paths depends *)
(* on the hash seed of the interpreter process; within one process it is    *)
(* fixed.  The seed is part of the environment.                             *)

NumHashSeeds == 2

\* All values that can occur in a set that is turned into a list
FlagUniverse ==
    <<"-O3", "-DNDEBUG", "-g3", "-O0", "-DDEBUG", "--coverage", "-fno-inline",
      "-DA", "-DB", "-DC">>

PathUniverse ==
    << <<"w", "include">>, <<"w", "inc">>, <<"w", "src">>, <<"w", "api">> >>

Rotate(s, n) ==
    [i \in 1..Len(s) |-> s[((i - 1 + n) % Len(s)) + 1]]

\* The iteration order under a seed: a rotation of the universe, reversed
\* for odd seeds
HashOrder(universe, seed) ==
    IF seed % 2 = 0 THEN Rotate(universe, seed \div 2)
                    ELSE Reverse(Rotate(universe, seed \div 2))

\* list(set(xs)) under the given hash seed
ListOfSet(xs, universe, seed) ==
    SelectSeq(HashOrder(universe, seed), LAMBDA x : x \in Range(xs))

----------------------------------------------------------------------------
(* Flags *)

DEFAULT_COMPILE_FLAGS                == <<"-Wall", "-Wextra", "-Wpedantic", "-Werror">>
DEFAULT_COMPILE_FLAGS_RELEASE        == <<"-O3", "-DNDEBUG">>
DEFAULT_COMPILE_FLAGS_RELWITHDEBINFO == <<"-O3", "-g3", "-DNDEBUG">>
DEFAULT_COMPILE_FLAGS_DEBUG          == <<"-O0", "-g3", "-DDEBUG">>
DEFAULT_COMPILE_FLAGS_COVERAGE       ==
    DEFAULT_COMPILE_FLAGS_DEBUG \o <<"--coverage", "-fno-inline">>

BuildTypes == {"Release", "Debug", "RelWithDebInfo", "Coverage"}
Platforms == {"linux", "osx", "windows"}
FlagKinds == {"flags", "interface-flags", "public-flags"}
Layers == {"base", "osx", "windows", "linux"}

\* The build-type defaults that open the private compile flags
BuildTypeDefaults(build_type) ==
    CASE build_type = "Release"        -> DEFAULT_COMPILE_FLAGS_RELEASE
      [] build_type = "Debug"          -> DEFAULT_COMPILE_FLAGS_DEBUG
      [] build_type = "RelWithDebInfo" -> DEFAULT_COMPILE_FLAGS_RELWITHDEBINFO
      [] build_type = "Coverage"       -> DEFAULT_COMPILE_FLAGS_COVERAGE
      [] OTHER -> <<>>

Slots == {"compile", "link", "compile_release", "compile_debug",
          "compile_relwithdebinfo", "compile_coverage"}

\* The options of a target hold only the keys its definition gives: a
\* mapping from (layer, flags kind, slot) to a list of flags.  A missing key
\* reads as the empty list, as dict.get does.
FlagsOption(options, layer, flags_kind, slot) ==
    IF <<layer, flags_kind, slot>> \in DOMAIN options
    THEN options[<<layer, flags_kind, slot>>]
    ELSE <<>>

\* options[layer].get(flags_kind, {}) as a dictionary of the six slots
FlagsDict(options, layer, flags_kind) ==
    [slot \in Slots |-> FlagsOption(options, layer, flags_kind, slot)]

\* The flags dictionaries parse_flags_options collects, in its order: the
\* one at the top level of the options, then the one of the current platform
FlagsDicts(options, flags_kind, platform) ==
    <<FlagsDict(options, "base", flags_kind)>>
    \o (IF platform = "osx"     THEN <<FlagsDict(options, "osx", flags_kind)>>     ELSE <<>>)
    \o (IF platform = "windows" THEN <<FlagsDict(options, "windows", flags_kind)>> ELSE <<>>)
    \o (IF platform = "linux"   THEN <<FlagsDict(options, "linux", flags_kind)>>   ELSE <<>>)

\* What one dictionary contributes to the compile flags
CompileOfDict(fdict, build_type) ==
    fdict.compile
    \o CASE build_type = "Release"        -> fdict.compile_release
         [] build_type = "Debug"          -> fdict.compile_debug
         [] build_type = "RelWithDebInfo" -> fdict.compile_relwithdebinfo
         [] build_type = "Coverage"       -> fdict.compile_coverage
         [] OTHER -> <<>>

\* Target.parse_flags_options: the pair (compile_flags, link_flags)
parse_flags_options(options, flags_kind, env) ==
    LET dicts == FlagsDicts(options, flags_kind, env.platform)
    IN  [cf |-> Concat([i \in 1..Len(dicts) |-> CompileOfDict(dicts[i], env.build_type)]),
         lf |-> Concat([i \in 1..Len(dicts) |-> dicts[i].link])]

----------------------------------------------------------------------------
(* Target.__init__ *)

Compilables == {"Executable", "SharedLibrary", "StaticLibrary"}
Classes == Compilables \cup {"HeaderOnly"}

\* Parsed directories: what the target's own definition contributes to its
\* private include path
OwnIncludeDirectories(files) ==
    files.include_directories \o files.include_directories_public

\* Variant of DependencyIncludeDirectories that treats every dependency alike
DependencyIncludeDirectories_PublicOnly(d) == d.include_directories_public

\* What one dependency contributes to the private include path
DependencyIncludeDirectories(d) ==
    (IF d.class = "HeaderOnly" THEN d.include_directories ELSE <<>>)
    \o d.include_directories_public

\* self.include_directories at the end of construction
IncludeDirectories(files, deps, env) ==
    ListOfSet(
        ResolveAll(OwnIncludeDirectories(files)
                   \o Concat([i \in 1..Len(deps) |-> DependencyIncludeDirectories(deps[i])])),
        PathUniverse, env.hash_seed)

\* The default include path, when <root>/include exists
DefaultIncludePath(root_include_exists) ==
    IF root_include_exists THEN <<JoinPath(WorkingDir, "include")>> ELSE <<>>

\* self.include_directories_public at the end of construction
IncludeDirectoriesPublic(files, deps, root_include_exists) ==
    DefaultIncludePath(root_include_exists)
    \o files.include_directories_public
    \o Concat([i \in 1..Len(deps) |-> deps[i].include_directories_public])

\* Variant of ReceiveFlags in which a StaticLibrary forwards the public flags
\* it receives
ReceiveFlags_StaticForwardsPublic(class, fl, d) ==
    CASE class \in {"HeaderOnly", "StaticLibrary"} ->
            [fl EXCEPT !.compile_flags_interface = @ \o d.compile_flags_interface,
                       !.link_flags_interface    = @ \o d.link_flags_interface,
                       !.compile_flags_public    = @ \o d.compile_flags_public,
                       !.link_flags_public       = @ \o d.link_flags_public]
      [] OTHER ->
            [fl EXCEPT !.compile_flags = (@ \o d.compile_flags_interface)
                                            \o d.compile_flags_public,
                       !.link_flags    = (@ \o d.link_flags_interface)
                                            \o d.link_flags_public]

\* One round of the loop over the dependencies: the flags taken from d
ReceiveFlags(class, fl, d) ==
    CASE class = "HeaderOnly" ->
            [fl EXCEPT !.compile_flags_interface = @ \o d.compile_flags_interface,
                       !.link_flags_interface    = @ \o d.link_flags_interface,
                       !.compile_flags_public    = @ \o d.compile_flags_public,
                       !.link_flags_public       = @ \o d.link_flags_public]
      [] class = "StaticLibrary" ->
            [fl EXCEPT !.compile_flags_interface = @ \o d.compile_flags_interface,
                       !.link_flags_interface    = @ \o d.link_flags_interface,
                       !.compile_flags           = @ \o d.compile_flags_public,
                       !.link_flags              = @ \o d.link_flags_public]
      [] OTHER ->
            [fl EXCEPT !.compile_flags = (@ \o d.compile_flags_interface)
                                            \o d.compile_flags_public,
                       !.link_flags    = (@ \o d.link_flags_interface)
                                            \o d.link_flags_public]

RECURSIVE ReceiveAll(_, _, _)
ReceiveAll(class, fl, deps) ==
    IF deps = <<>> THEN fl
    ELSE ReceiveAll(class, ReceiveFlags(class, fl, Head(deps)), Tail(deps))

\* The regular (private) flags: build-type defaults, then the 'flags' options
RegularFlags(options, env) ==
    LET own == parse_flags_options(options, "flags", env)
    IN  [compile_flags           |-> BuildTypeDefaults(env.build_type) \o own.cf,
         link_flags              |-> own.lf,
         compile_flags_interface |-> <<>>,
         link_flags_interface    |-> <<>>,
         compile_flags_public    |-> <<>>,
         link_flags_public       |-> <<>>]

\* Variant of AddInterfaceFlags that also applies the interface flags
AddInterfaceFlags_Applied(fl, options, env) ==
    LET own == parse_flags_options(options, "interface-flags", env)
    IN  [fl EXCEPT !.compile_flags           = @ \o own.cf,
                   !.link_flags              = @ \o own.lf,
                   !.compile_flags_interface = @ \o own.cf,
                   !.link_flags_interface    = @ \o own.lf]

\* The interface flags of the target's own options
AddInterfaceFlags(fl, options, env) ==
    LET own == parse_flags_options(options, "interface-flags", env)
    IN  [fl EXCEPT !.compile_flags_interface = @ \o own.cf,
                   !.link_flags_interface    = @ \o own.lf]

\* The public flags of the target's own options
AddPublicFlags(fl, options, env) ==
    LET own == parse_flags_options(options, "public-flags", env)
    IN  [fl EXCEPT !.compile_flags        = @ \o own.cf,
                   !.link_flags           = @ \o own.lf,
                   !.compile_flags_public = @ \o own.cf,
                   !.link_flags_public    = @ \o own.lf]

\* The six flag vectors at the end of construction
TargetFlags(class, options, deps, env) ==
    LET received == ReceiveAll(class, RegularFlags(options, env), deps)
        unique   == [received EXCEPT
                        !.compile_flags = ListOfSet(@, FlagUniverse, env.hash_seed)]
    IN  AddPublicFlags(AddInterfaceFlags(unique, options, env), options, env)

\* The output folder of a kind on a platform (platform.py)
OutputFolderName(class, platform) ==
    CASE class = "Executable"    -> "bin"
      [] class = "SharedLibrary" -> IF platform = "windows" THEN "bin" ELSE "lib"
      [] class = "StaticLibrary" -> "lib"
      [] OTHER                   -> ""

\* The prefix and the suffix of the output file of a kind: constants of the
\* platform table, kept as their names
Prefix(class) ==
    CASE class = "Executable"    -> "EXECUTABLE_PREFIX"
      [] class = "SharedLibrary" -> "SHARED_LIBRARY_PREFIX"
      [] class = "StaticLibrary" -> "STATIC_LIBRARY_PREFIX"
      [] OTHER                   -> ""

Suffix(class) ==
    CASE class = "Executable"    -> "EXECUTABLE_SUFFIX"
      [] class = "SharedLibrary" -> "SHARED_LIBRARY_SUFFIX"
      [] class = "StaticLibrary" -> "STATIC_LIBRARY_SUFFIX"
      [] OTHER                   -> ""

\* self.outname: options['output_name'] when given, the name otherwise
OutName(name, options) ==
    IF <<"output_name", "", "">> \in DOMAIN options
    THEN options[<<"output_name", "", "">>]
    ELSE AsText(name)

\* self.outfile: the output folder, then the file name prefix + outname +
\* suffix, written as its three parts
OutFile(output_folder, class, outname) ==
    output_folder \o <<Prefix(class), outname, Suffix(class)>>

\* The object file of the SingleSource of a source file: under the object
\* directory, named after the source file
ObjectFile(object_directory, source_file) ==
    object_directory \o <<source_file, ".o">>

ObjectFiles(object_directory, source_files) ==
    [i \in 1..Len(source_files) |-> ObjectFile(object_directory, source_files[i])]

\* A word of a command line.  Every element of a command line is a
\* sequence of strings: a path is the sequence of its components, any other
\* word the sequence of its parts.
Word(text) == <<text>>

Words(texts) == [i \in 1..Len(texts) |-> Word(texts[i])]

clangpp == Word("clang++")
clang_ar == Word("llvm-ar")

\* The head of the link command that each kind hands to Compilable.__init__
LinkCommandHead(class) ==
    CASE class = "Executable"    -> <<clangpp, Word("-o")>>
      [] class = "SharedLibrary" -> <<clangpp, Word("-shared"), Word("-o")>>
      [] class = "StaticLibrary" -> <<clang_ar, Word("rc")>>
      [] OTHER                   -> <<>>

IsLinked(d) == d.class # "HeaderOnly"

\* Variant of LinkedDependencies that keeps every dependency
LinkedDependencies_All(deps) == deps

\* The dependencies that take part in the link command
LinkedDependencies(deps) == SelectSeq(deps, IsLinked)

\* The -L options: the output folder of each linked dependency
LibrarySearchPaths(deps) ==
    Concat([i \in 1..Len(LinkedDependencies(deps)) |->
               <<Word("-L"), Resolve(LinkedDependencies(deps)[i].output_folder)>>])

\* The -l options: the outname of each linked dependency
LibraryNames(deps) ==
    [i \in 1..Len(LinkedDependencies(deps)) |->
        <<"-l", LinkedDependencies(deps)[i].outname>>]

\* The object files of the linked dependencies
DependencyObjectFiles(deps) ==
    Concat([i \in 1..Len(LinkedDependencies(deps)) |->
               LinkedDependencies(deps)[i].object_files])

\* self.link_command at the end of construction
LinkCommand(class, outfile, object_files, link_flags, deps) ==
    (LinkCommandHead(class) \o <<outfile>>) \o object_files
    \o (IF class = "StaticLibrary"
        THEN Words(link_flags) \o DependencyObjectFiles(deps)
        ELSE (LibrarySearchPaths(deps) \o Words(link_flags)) \o LibraryNames(deps))

\* Target.__init__ of the given class; dependency_targets holds the positions
\* of the dependency objects in the project's target list.  The attributes
\* that only a Compilable has are empty for a HeaderOnly target.
NewTarget(class, name, files, options, dependency_targets, tl, env, root_include_exists, build_directory) ==
    LET deps == [i \in 1..Len(dependency_targets) |-> tl[dependency_targets[i]]]
        fl   == TargetFlags(class, options, deps, env)
        compilable       == class \in Compilables
        source_files     == IF compilable THEN files.sourcefiles ELSE <<>>
        object_directory == Resolve(JoinPath(build_directory, "obj"))
        output_folder    == Resolve(JoinPath(build_directory,
                                             OutputFolderName(class, env.platform)))
        outname          == OutName(name, options)
        outfile          == Resolve(OutFile(output_folder, class, outname))
        object_files     == ObjectFiles(object_directory, source_files)
    IN  [name                       |-> name,
         class                      |-> class,
         dependency_targets         |-> dependency_targets,
         options                    |-> options,
         source_files               |-> source_files,
         include_directories        |-> IncludeDirectories(files, deps, env),
         include_directories_public |-> IncludeDirectoriesPublic(files, deps, root_include_exists),
         compile_flags              |-> fl.compile_flags,
         link_flags                 |-> fl.link_flags,
         compile_flags_interface    |-> fl.compile_flags_interface,
         link_flags_interface       |-> fl.link_flags_interface,
         compile_flags_public       |-> fl.compile_flags_public,
         link_flags_public          |-> fl.link_flags_public,
         build_directory            |-> build_directory,
         object_directory           |-> IF compilable THEN object_directory ELSE <<>>,
         depfile_directory          |-> IF compilable
                                        THEN Resolve(JoinPath(build_directory, "dep"))
                                        ELSE <<>>,
         output_folder              |-> IF compilable THEN output_folder ELSE <<>>,
         outname                    |-> IF compilable THEN outname ELSE "",
         outfile                    |-> IF compilable THEN outfile ELSE <<>>,
         object_files               |-> object_files,
         link_command               |-> IF compilable
                                        THEN LinkCommand(class, outfile, object_files,
                                                         fl.link_flags, deps)
                                        ELSE <<>>]

\* Compilable.__init__ raises RuntimeError when no source file was found
RaisesNoSources(class, files) ==
    class \in Compilables /\ files.sourcefiles = <<>>

\* Compilable.__init__: the -I options, one pair per private include directory
IncludeDirectoriesCommand(t) ==
    Concat([i \in 1..Len(t.include_directories) |->
                <<"-I", Resolve(t.include_directories[i])>>])

----------------------------------------------------------------------------
(* Project.__init__ *)

LogRecord(kind, subject, detail) ==
    [kind |-> kind, subject |-> subject, detail |-> detail]

\* sys.exit(1) after logging
ExitWithError(record) ==
    /\ log' = Append(log, record)
    /\ exit_code' = 1
    /\ pc' = "exit"

\* The recursion into the subprojects ends the process when one of them does
SubprojectExits(c) == \E i \in 1..Len(c.subprojects) : c.subprojects[i].fails

\* Splitting the mapping, the two anonymous-project checks, the recursion
\* into the subprojects, and the early return of a project without targets
Begin ==
    /\ pc = "start"
    /\ multiple_targets' = MultipleTargets(config)
    /\ IF PrefixMixRejected(config)
       THEN ExitWithError(LogRecord("anonymous_project", "prefix", <<>>))
       ELSE IF AnonymousRejected(config)
       THEN ExitWithError(LogRecord("anonymous_project", "top_level", <<>>))
       ELSE IF SubprojectsConfig(config) # <<>> /\ SubprojectExits(config)
       THEN /\ exit_code' = 1
            /\ pc' = "exit"
            /\ UNCHANGED log
       ELSE /\ pc' = IF TargetsConfig(config) = <<>> THEN "done" ELSE "validate"
            /\ UNCHANGED <<log, exit_code>>
    /\ UNCHANGED <<config, environment, fs, exception, target_names, target_list,
                   has_target_list, pos>>
    /\ UNCHANGED <<multiple_projects, compile_vars, secondary_vars, returned>>

\* if non_existent_dependencies:
NonExistentRejected(missing) == missing # <<>>

\* Variant of CircularRejected that lets cycles pass
CircularRejected_Never(cycles) == FALSE

\* if circular_dependencies:
CircularRejected(cycles) == cycles # <<>>

\* The lines of the message logged for circular dependencies: the
\* comprehension iterates non_existent_dependencies
CircularErrorMessages(missing, cycles) == missing

\* The dependency checks, the walk and the empty target list
Validate ==
    /\ pc = "validate"
    /\ LET missing == find_non_existent_dependencies(config)
           cycles  == find_circular_dependencies(config)
       IN  IF NonExistentRejected(missing)
           THEN /\ ExitWithError(LogRecord("non_existent_dependencies", "", missing))
                /\ UNCHANGED <<target_names, target_list, has_target_list>>
           ELSE IF CircularRejected(cycles)
           THEN /\ ExitWithError(LogRecord("circular_dependencies", "",
                                           CircularErrorMessages(missing, cycles)))
                /\ UNCHANGED <<target_names, target_list, has_target_list>>
           ELSE /\ target_names' = get_dependency_walk(config)
                /\ target_list' = <<>>
                /\ has_target_list' = TRUE
                /\ pc' = "loop"
                /\ UNCHANGED <<log, exit_code>>
    /\ UNCHANGED <<config, environment, fs, exception, multiple_targets, pos>>
    /\ UNCHANGED <<multiple_projects, compile_vars, secondary_vars, returned>>

\* self.build_directory of the project
ProjectBuildDirectory(c, multiple) ==
    IF multiple THEN JoinPath(BuildDirectory, c.name) ELSE BuildDirectory

\* target_build_dir
TargetBuildDir(c, multiple, several_targets, target_name) ==
    IF ~several_targets THEN ProjectBuildDirectory(c, multiple)
    ELSE JoinPath(ProjectBuildDirectory(c, multiple), AsText(target_name))

\* Variant of WalkPosition that is off by one
WalkPosition_OffByOne(walk, name) == IndexOf(walk, name) + 1

\* target_names.index(name), as a position counted from 1
WalkPosition(walk, name) == IndexOf(walk, name)

\* The positions in target_list that the dependency lookup reads
DependencyPositions(walk, project_node) ==
    [i \in 1..Len(project_node.dependencies) |->
        WalkPosition(walk, project_node.dependencies[i])]

\* The lookup raises IndexError when a position is beyond the list
LookupRaises(positions, tl) == \E i \in 1..Len(positions) : positions[i] > Len(tl)

\* executable_dependencies
ExecutableDependencies(positions, tl) ==
    SelectSeq(positions, LAMBDA p : tl[p].class = "Executable")

\* Variant of SelectedClasses that compares target_type as written
SelectedClasses_CaseSensitive(project_node, files) ==
    IF project_node.has_type
    THEN LET t == project_node.target_type
         IN  (IF t = s_executable THEN <<"Executable">> ELSE <<>>)
             \o (IF t = s_shared_library THEN <<"SharedLibrary">>
                 ELSE IF t = s_static_library THEN <<"StaticLibrary">>
                 ELSE IF t = s_header_only THEN <<"HeaderOnly">>
                 ELSE <<>>)
    ELSE IF files.sourcefiles = <<>> THEN <<"HeaderOnly">> ELSE <<"Executable">>

\* The constructor calls of one loop round, in order.  The test for
\* 'executable' is an if of its own; the chain that follows it starts anew.
SelectedClasses(project_node, files) ==
    IF project_node.has_type
    THEN LET t == Lower(project_node.target_type)
         IN  (IF t = s_executable THEN <<"Executable">> ELSE <<>>)
             \o (IF t = s_shared_library THEN <<"SharedLibrary">>
                 ELSE IF t = s_static_library THEN <<"StaticLibrary">>
                 ELSE IF t = s_header_only THEN <<"HeaderOnly">>
                 ELSE <<>>)
    ELSE IF files.sourcefiles = <<>> THEN <<"HeaderOnly">> ELSE <<"Executable">>

\* Whether the final else of the chain logs 'Unsupported target type'
UnsupportedLogged(project_node) ==
    /\ project_node.has_type
    /\ Lower(project_node.target_type)
          \notin {s_shared_library, s_static_library, s_header_only}

\* One round of the loop over the walk
ConstructTarget ==
    /\ pc = "loop"
    /\ pos < Len(target_names)
    /\ LET target_name  == target_names[pos + 1]
           project_node == config.defs[target_name]
           files        == fs.files[target_name]
           positions    == DependencyPositions(target_names, project_node)
       IN  IF LookupRaises(positions, target_list)
           THEN /\ exception' = "IndexError"
                /\ pc' = "crashed"
                /\ UNCHANGED <<log, target_list, pos>>
           ELSE LET executable_dependencies == ExecutableDependencies(positions, target_list)
                    log1 == IF executable_dependencies # <<>>
                            THEN Append(log, LogRecord("executable_dependency", target_name,
                                                       executable_dependencies))
                            ELSE log
                    classes == SelectedClasses(project_node, files)
                IN  IF classes # <<>> /\ RaisesNoSources(classes[1], files)
                    THEN /\ exception' = "RuntimeError"
                         /\ pc' = "crashed"
                         /\ log' = log1
                         /\ UNCHANGED <<target_list, pos>>
                    ELSE /\ target_list' =
                              target_list \o
                              [i \in 1..Len(classes) |->
                                  NewTarget(classes[i], target_name, files,
                                            project_node.options, positions, target_list,
                                            environment, fs.root_include_exists,
                                            TargetBuildDir(config, multiple_projects,
                                                           multiple_targets, target_name))]
                         /\ log' = IF UnsupportedLogged(project_node)
                                   THEN Append(log1, LogRecord("unsupported_target_type",
                                                               target_name, <<>>))
                                   ELSE log1
                         /\ pos' = pos + 1
                         /\ UNCHANGED <<exception, pc>>
    /\ UNCHANGED <<config, environment, fs, exit_code, target_names,
                   has_target_list, multiple_targets>>
    /\ UNCHANGED <<multiple_projects, compile_vars, secondary_vars, returned>>

\* The loop is exhausted and __init__ returns
Finish ==
    /\ pc = "loop"
    /\ pos = Len(target_names)
    /\ pc' = "done"
    /\ UNCHANGED <<config, environment, fs, exit_code, exception, log, target_names,
                   target_list, has_target_list, multiple_targets, pos>>
    /\ UNCHANGED <<multiple_projects, compile_vars, secondary_vars, returned>>

Next == Begin \/ Validate \/ ConstructTarget \/ Finish

----------------------------------------------------------------------------
(* Project.get_targets *)

\* get_targets has not been called
NotCalled == [called |-> FALSE, raised |-> FALSE, value |-> <<>>]

\* return self.target_list: the attribute exists once line 111 has run; a
\* read of an attribute that was never assigned raises AttributeError
GetTargets ==
    /\ pc = "done"
    /\ ~returned.called
    /\ IF has_target_list
       THEN /\ returned' = [called |-> TRUE, raised |-> FALSE, value |-> target_list]
            /\ UNCHANGED exception
       ELSE /\ returned' = [called |-> TRUE, raised |-> TRUE, value |-> <<>>]
            /\ exception' = "AttributeError"
    /\ UNCHANGED <<config, environment, fs, pc, exit_code, log, target_names,
                   target_list, has_target_list, multiple_targets, pos,
                   multiple_projects>>
    /\ UNCHANGED <<compile_vars, secondary_vars>>

NextQuery == Next \/ GetTargets

----------------------------------------------------------------------------
(* Target.create_test_targets and Target.create_example_targets            *)
(*                                                                         *)
(* A secondary target is an Executable built from the sources that source  *)
(* discovery finds for the tests or the examples of its owner.  Its name   *)
(* is the sequence of the parts of the f-string that forms it.             *)

\* An empty options table
EmptyOptions == <<>>

\* What source discovery returns
FilesOf(sources, dirs, public_dirs) ==
    [sourcefiles |-> sources, headers |-> <<>>,
     include_directories |-> dirs, include_directories_public |-> public_dirs]

\* Path.stem of a discovered source file
Stem(sourcefile) ==
    CASE sourcefile = "one.cpp"     -> "one"
      [] sourcefile = "sub/one.cpp" -> "one"
      [] sourcefile = "two.cpp"     -> "two"
      [] sourcefile = "three.cpp"   -> "three"

\* self.options.get("tests", {}) and self.options.get("examples", {})
SubOptions(options, kind) ==
    IF <<kind, "", "">> \in DOMAIN options THEN options[<<kind, "", "">>] ELSE EmptyOptions

\* tests_options.get("single_executable", True), looked up only when the
\* options are not empty
SingleExecutable(tests_options) ==
    IF tests_options # EmptyOptions /\ <<"single_executable", "", "">> \in DOMAIN tests_options
    THEN tests_options[<<"single_executable", "", "">>]
    ELSE TRUE

\* examples_options.get("dependencies", [])
DeclaredExampleDependencies(examples_options) ==
    IF <<"dependencies", "", "">> \in DOMAIN examples_options
    THEN examples_options[<<"dependencies", "", "">>]
    ELSE <<>>

\* self.dependency_targets_tests and self.dependency_targets_examples, as
\* positions of the project's target list: the owner itself unless it is an
\* Executable (the project passes no further test or example dependencies)
DependencyTargetsTests(j) ==
    IF target_list[j].class # "Executable" THEN <<j>> ELSE <<>>

DependencyTargetsExamples(j) ==
    IF target_list[j].class # "Executable" THEN <<j>> ELSE <<>>

\* The targets among the positions ps whose identifier is that of the name
\* (owner and dependency carry the same project identifier)
WithIdentifier(ps, dependency_name) ==
    SelectSeq(ps, LAMBDA q : target_list[q].name = dependency_name)

\* The local dependencies of create_example_targets
ExampleDependencies(j, examples_options) ==
    LET declared == DeclaredExampleDependencies(examples_options)
        all      == [q \in 1..Len(target_list) |-> q]
    IN  (IF target_list[j].class # "Executable" THEN <<j>> ELSE <<>>)
        \o Concat([i \in 1..Len(declared) |->
                      WithIdentifier(all, declared[i])
                      \o WithIdentifier(DependencyTargetsExamples(j), declared[i])])

\* The Executable that create_test_targets and create_example_targets
\* construct; the folder of the tests or examples holds no include directory
SecondaryExecutable(name, folder, sourcefiles, positions, options, j) ==
    NewTarget("Executable", name, FilesOf(sourcefiles, <<>>, <<>>), options,
              positions, target_list, environment, FALSE,
              JoinPath(target_list[j].build_directory, folder))

\* What source discovery answers: asked only when the run requested the tests
DiscoveredTests == IF environment_tests THEN secondary_files.tests ELSE <<>>

DiscoveredExamples == IF environment_examples THEN secondary_files.examples ELSE <<>>

\* self.test_targets at the end of create_test_targets
TestTargets(j) ==
    LET tests_options == SubOptions(target_list[j].options, "tests")
        sourcefiles   == DiscoveredTests
        build_tests   == sourcefiles # <<>>
        positions     == DependencyTargetsTests(j)
    IN  IF ~build_tests THEN <<>>
        ELSE (IF SingleExecutable(tests_options)
              THEN <<SecondaryExecutable(<<"test">>, "tests", sourcefiles,
                                         positions, tests_options, j)>>
              ELSE [i \in 1..Len(sourcefiles) |->
                       SecondaryExecutable(<<"test_", Stem(sourcefiles[i])>>, "tests",
                                           <<sourcefiles[i]>>, positions,
                                           tests_options, j)])
             \o [i \in 1..Len(positions) |-> target_list[positions[i]]]

\* Whether create_example_targets reaches the statement that reads the
\* local missing_dependencies, which no statement has assigned
ReadsUnassignedLocal(j) ==
    /\ DiscoveredExamples # <<>>
    /\ ExampleDependencies(j, SubOptions(target_list[j].options, "examples")) = <<>>

\* self.example_targets at the end of create_example_targets
ExampleTargets(j) ==
    LET examples_options == SubOptions(target_list[j].options, "examples")
        sourcefiles      == DiscoveredExamples
        dependencies     == ExampleDependencies(j, examples_options)
    IN  [i \in 1..Len(sourcefiles) |->
            SecondaryExecutable(<<"example_", Stem(sourcefiles[i])>>, "examples",
                                <<sourcefiles[i]>>, dependencies, examples_options, j)]

\* No primary target has been asked for its secondary targets
NotAsked == [j \in {} |-> <<>>]

NoSecondaryCall ==
    /\ environment_tests = FALSE
    /\ environment_examples = FALSE
    /\ secondary_files = [tests |-> <<>>, examples |-> <<>>]
    /\ test_targets = NotAsked
    /\ example_targets = NotAsked
    /\ spc = "idle"

\* The positions of the primary targets
Owners == IF has_target_list THEN 1..Len(target_list) ELSE {}

CreateTestTargets(j) ==
    /\ pc = "done"
    /\ spc = "idle"
    /\ j \notin DOMAIN test_targets
    /\ test_targets' = test_targets @@ (j :> TestTargets(j))
    /\ UNCHANGED <<environment_tests, environment_examples, secondary_files,
                   example_targets, spc>>
    /\ UNCHANGED <<project_vars, compile_vars, returned>>

CreateExampleTargets(j) ==
    /\ pc = "done"
    /\ spc = "idle"
    /\ j \notin DOMAIN example_targets
    /\ IF ReadsUnassignedLocal(j)
       THEN /\ example_targets' = example_targets @@ (j :> <<>>)
            /\ exception' = "UnboundLocalError"
            /\ spc' = "crashed"
       ELSE /\ example_targets' = example_targets @@ (j :> ExampleTargets(j))
            /\ UNCHANGED <<exception, spc>>
    /\ UNCHANGED <<environment_tests, environment_examples, secondary_files,
                   test_targets>>
    /\ UNCHANGED <<config, environment, fs, pc, exit_code, log, target_names,
                   target_list, has_target_list, multiple_targets, pos,
                   multiple_projects>>
    /\ UNCHANGED <<compile_vars, returned>>

NextSecondary ==
    \/ Next
    \/ \E j \in Owners : CreateTestTargets(j)
    \/ \E j \in Owners : CreateExampleTargets(j)

----------------------------------------------------------------------------
(* Compilable.compile and the process pool                                 *)
(*                                                                         *)
(* The driver hands the needed buildables to process_pool.imap twice:      *)
(* first with generate_depfile_single_source, then with                    *)
(* compile_single_source.  A worker process receives a copy of a           *)
(* buildable, runs the function on it and returns the copy; list(...)      *)
(* around imap returns once every result has arrived, in submission order. *)
(* SingleSource is defined in single_source.py, which is not part of the   *)
(* sources at hand; its flags and the outcome of its two commands are      *)
(* modelled from section 4.5 of the specification.                         *)

\* The SingleSource made for a source file at construction of the target
SingleSource(source_file, needs_rebuild) ==
    [name               |-> source_file,
     needs_rebuild      |-> needs_rebuild,
     depfile_failed     |-> FALSE,
     compilation_failed |-> FALSE]

\* self.buildables: one SingleSource per source file, in source order
Buildables(source_files, needs) ==
    [i \in 1..Len(source_files) |-> SingleSource(source_files[i], needs[i])]

\* SingleSource.generate_depfile: a failure sets depfile_failed
generate_depfile(buildable, failed) ==
    [buildable EXCEPT !.depfile_failed = failed]

\* SingleSource.compile: a failure of the compiler sets compilation_failed
compile(buildable, failed) ==
    [buildable EXCEPT !.compilation_failed = failed]

NeedsRebuild(buildable) == buildable.needs_rebuild

\* Variant of NeededBuildables that ignores force_build
NeededBuildables_IgnoreForce(bs, force) == SelectSeq(bs, NeedsRebuild)

\* self.needed_buildables as compile computes it on entry
NeededBuildables(bs, force) ==
    IF ~force THEN SelectSeq(bs, NeedsRebuild) ELSE bs

\* Variant of SubmittedFunction that hands out the compile function at once
SubmittedFunction_CompileAtOnce(position) == "compile_single_source"

\* The function the driver passes to process_pool.imap at a position
SubmittedFunction(position) ==
    IF position = "depfile" THEN "generate_depfile_single_source"
                            ELSE "compile_single_source"

\* process_pool.imap: one task per element, in order
Submit(position, needed) ==
    [i \in 1..Len(needed) |->
        [function |-> SubmittedFunction(position), index |-> i, buildable |-> needed[i]]]

\* list(imap(...)) returns when the result of every task has arrived
AllReturned(needed, res) == \A i \in 1..Len(needed) : i \in DOMAIN res

\* The list that list(imap(...)) returns: the results in submission order
Collected(needed, res) == [i \in 1..Len(needed) |-> res[i]]

\* Variant of Failed that looks at the compilation only
Failed_CompilationOnly(buildable) == buildable.compilation_failed

\* The condition that puts a buildable into unsuccessful_builds
Failed(buildable) == buildable.compilation_failed \/ buildable.depfile_failed

Idle == [function |-> "", index |-> 0, buildable |-> <<>>]

\* No call of compile is under way
NoCompileCall ==
    /\ force_build = FALSE
    /\ before_compile_script = FALSE
    /\ pool_size = 1
    /\ buildables = <<>>
    /\ needed_buildables = <<>>
    /\ cpc = "none"
    /\ task_queue = <<>>
    /\ in_progress = [w \in 1..1 |-> Idle]
    /\ results = <<>>
    /\ invocations = {}
    /\ failed_commands = {}
    /\ unsuccessful_builds = <<>>

\* compile up to the first list(imap(...)): the needed buildables, the early
\* return, the before-compile script, the submission of the depfile tasks
CompileEnter ==
    /\ cpc = "entry"
    /\ LET needed == NeededBuildables(buildables, force_build)
       IN  /\ needed_buildables' = needed
           /\ IF needed = <<>>
              THEN /\ cpc' = "returned"
                   /\ UNCHANGED <<task_queue, invocations>>
              ELSE /\ invocations' =
                        IF before_compile_script
                        THEN invocations \cup {<<"before_compile_script", "">>}
                        ELSE invocations
                   /\ task_queue' = Submit("depfile", needed)
                   /\ cpc' = "depfile"
    /\ UNCHANGED <<force_build, before_compile_script, pool_size, buildables,
                   in_progress, results, failed_commands, unsuccessful_builds>>
    /\ UNCHANGED <<project_vars, secondary_vars, returned>>

\* A worker that is free takes the next task and starts its command
WorkerStart(w) ==
    /\ in_progress[w] = Idle
    /\ task_queue # <<>>
    /\ in_progress' = [in_progress EXCEPT ![w] = Head(task_queue)]
    /\ task_queue' = Tail(task_queue)
    /\ invocations' = invocations \cup
                        {<<Head(task_queue).function, Head(task_queue).buildable.name>>}
    /\ UNCHANGED <<force_build, before_compile_script, pool_size, buildables,
                   needed_buildables, cpc, results, failed_commands, unsuccessful_builds>>
    /\ UNCHANGED <<project_vars, secondary_vars, returned>>

\* The command of a worker ends, well or not, and the worker returns its
\* copy of the buildable to the driver
WorkerReturn(w) ==
    /\ in_progress[w] # Idle
    /\ \E failed \in BOOLEAN :
          LET task == in_progress[w]
              done == IF task.function = "generate_depfile_single_source"
                      THEN generate_depfile(task.buildable, failed)
                      ELSE compile(task.buildable, failed)
          IN  /\ results' = (task.index :> done) @@ results
              /\ failed_commands' =
                    IF failed
                    THEN failed_commands \cup {<<task.function, task.buildable.name>>}
                    ELSE failed_commands
    /\ in_progress' = [in_progress EXCEPT ![w] = Idle]
    /\ UNCHANGED <<force_build, before_compile_script, pool_size, buildables,
                   needed_buildables, cpc, task_queue, invocations, unsuccessful_builds>>
    /\ UNCHANGED <<project_vars, secondary_vars, returned>>

\* The first list(imap(...)) returns; the compile tasks are submitted
CompileAfterDepfiles ==
    /\ cpc = "depfile"
    /\ AllReturned(needed_buildables, results)
    /\ needed_buildables' = Collected(needed_buildables, results)
    /\ task_queue' = Submit("compile", Collected(needed_buildables, results))
    /\ results' = <<>>
    /\ cpc' = "compile"
    /\ UNCHANGED <<force_build, before_compile_script, pool_size, buildables,
                   in_progress, invocations, failed_commands, unsuccessful_builds>>
    /\ UNCHANGED <<project_vars, secondary_vars, returned>>

\* The second list(imap(...)) returns; unsuccessful_builds is set
CompileAfterCompiles ==
    /\ cpc = "compile"
    /\ AllReturned(needed_buildables, results)
    /\ needed_buildables' = Collected(needed_buildables, results)
    /\ unsuccessful_builds' = SelectSeq(Collected(needed_buildables, results), Failed)
    /\ results' = <<>>
    /\ cpc' = "returned"
    /\ UNCHANGED <<force_build, before_compile_script, pool_size, buildables,
                   task_queue, in_progress, invocations, failed_commands>>
    /\ UNCHANGED <<project_vars, secondary_vars, returned>>

NextCompile ==
    \/ CompileEnter
    \/ \E w \in 1..pool_size : WorkerStart(w)
    \/ \E w \in 1..pool_size : WorkerReturn(w)
    \/ CompileAfterDepfiles
    \/ CompileAfterCompiles

----------------------------------------------------------------------------
(* Configurations, environments and filesystem answers *)

\* Target keys in declaration order
KeyPool == <<s_app, s_lib, s_hdr, s_util, s_projectx>>

NoType == [has_type |-> FALSE, target_type |-> <<>>]
TypeOf(t) == [has_type |-> TRUE, target_type |-> t]

\* Every sequence of distinct elements of S of length at most n
RECURSIVE DistinctSeqs(_, _)
DistinctSeqs(S, n) ==
    IF n = 0 THEN {<<>>}
    ELSE LET shorter == DistinctSeqs(S, n - 1)
         IN  shorter \cup {q \in {Append(r, x) : r \in shorter, x \in S} : NoDup(q)}

\* Every strictly increasing subsequence of the sequence s of length at most n
RECURSIVE SubSeqsUpTo(_, _)
SubSeqsUpTo(s, n) ==
    IF s = <<>> \/ n = 0 THEN {<<>>}
    ELSE SubSeqsUpTo(Tail(s), n)
         \cup {<<Head(s)>> \o q : q \in SubSeqsUpTo(Tail(s), n - 1)}

\* The target definitions over the given keys; deps[k] is the set of
\* dependency lists to choose from for key k
Definitions(keys, types, deps, options) ==
    {[k \in Range(keys) |->
        [has_type     |-> ty[k].has_type,
         target_type  |-> ty[k].target_type,
         dependencies |-> dp[k],
         options      |-> op[k]]] :
        ty \in [Range(keys) -> types],
        dp \in {f \in [Range(keys) -> UNION {deps[k] : k \in Range(keys)}] :
                    \A k \in Range(keys) : f[k] \in deps[k]},
        op \in [Range(keys) -> options]}

ConfigsOver(names, keys, subs, types, deps, options) ==
    {[name |-> nm, keys |-> keys, defs |-> df, subprojects |-> sb] :
        nm \in names, sb \in subs, df \in Definitions(keys, types, deps, options)}

NoFiles ==
    [sourcefiles |-> <<>>, headers |-> <<>>,
     include_directories |-> <<>>, include_directories_public |-> <<>>]

Filesystems(keys, files, root_include) ==
    {[files |-> f, root_include_exists |-> r] :
        f \in [Range(keys) -> files], r \in root_include}

ControlAtStart ==
    /\ pc = "start"
    /\ exit_code = 0
    /\ exception = ""
    /\ log = <<>>
    /\ target_names = <<>>
    /\ target_list = <<>>
    /\ has_target_list = FALSE
    /\ multiple_targets = FALSE
    /\ pos = 0
    /\ NoCompileCall

InitialControl ==
    /\ ControlAtStart
    /\ NoSecondaryCall
    /\ returned = NotCalled
    /\ multiple_projects = FALSE

DefaultEnvironment ==
    [build_type |-> "Release", platform |-> "linux", hash_seed |-> 0]

OneSource == FilesOf(<<"main.cpp">>, <<>>, <<>>)

----------------------------------------------------------------------------
(* Specification of project construction: the target kinds and the         *)
(* discovered sources vary; a target depends on nothing or on the target   *)
(* declared after it (the last one on the first)                           *)

TargetTypes ==
    {NoType, TypeOf(s_Executable), TypeOf(s_shared_library),
     TypeOf(s_STATIC_LIBRARY), TypeOf(s_Header_Only), TypeOf(s_plugin)}

SourceChoices == {NoFiles, OneSource}

NextDeclared(keys, k) == keys[(IndexOf(keys, k) % Len(keys)) + 1]

NoneOrNext(keys) == [k \in Range(keys) |-> {<<>>, <<NextDeclared(keys, k)>>}]

Init ==
    /\ \E n \in 0..MaxTargets :
          LET keys == SubSeq(KeyPool, 1, n)
          IN  /\ config \in ConfigsOver({""}, keys, {<<>>}, TargetTypes,
                                        NoneOrNext(keys), {EmptyOptions})
              /\ fs \in Filesystems(keys, SourceChoices, {FALSE})
    /\ environment = DefaultEnvironment
    /\ InitialControl

Spec == Init /\ [][Next]_vars

----------------------------------------------------------------------------
(* Specification of the dependency analysis: the dependency lists vary     *)
(* over the declared targets and one undeclared name                       *)

AnyDeclaredOrGhost(keys) ==
    [k \in Range(keys) |-> SubSeqsUpTo(keys, MaxDeps) \cup {<<s_ghost>>}]

InitWalk ==
    /\ \E n \in 0..MaxTargets :
          LET keys == SubSeq(KeyPool, 1, n)
          IN  /\ config \in ConfigsOver({""}, keys, {<<>>}, {NoType},
                                        AnyDeclaredOrGhost(keys), {EmptyOptions})
              /\ fs \in Filesystems(keys, {OneSource}, {FALSE})
    /\ environment = DefaultEnvironment
    /\ InitialControl

SpecWalk == InitWalk /\ [][Next]_vars

----------------------------------------------------------------------------
(* Specification of the anonymous-project checks: the project name, the    *)
(* target keys and the subprojects vary                                    *)

AnonKeys == {s_app, s_lib, s_projectx}

Subprojects == {<<>>, <<[name |-> "sub", fails |-> FALSE]>>,
                <<[name |-> "sub", fails |-> TRUE]>>}

NoDependencies(keys) == [k \in Range(keys) |-> {<<>>}]

InitAnon ==
    /\ \E keys \in DistinctSeqs(AnonKeys, MaxTargets) :
          /\ config \in ConfigsOver({"", "P"}, keys, Subprojects, {NoType},
                                    NoDependencies(keys), {EmptyOptions})
          /\ fs \in Filesystems(keys, SourceChoices, {FALSE})
    /\ environment = DefaultEnvironment
    /\ InitialControl

SpecAnon == InitAnon /\ [][Next]_vars

----------------------------------------------------------------------------
(* Specification of the flag visibility rules: the kinds of the targets,   *)
(* their flag options, the build type and the platform vary; a target      *)
(* depends on targets declared before it                                   *)

CompiledTypes ==
    {TypeOf(s_executable), TypeOf(s_shared_library),
     TypeOf(s_static_library), TypeOf(s_header_only)}

\* One flag under each kind, for both sides
PlainOptions ==
    (<<"base", "flags", "compile">> :> <<"-DC">>)
    @@ (<<"base", "flags", "link">> :> <<"-lm">>)
    @@ (<<"base", "interface-flags", "compile">> :> <<"-DA">>)
    @@ (<<"base", "interface-flags", "link">> :> <<"-lz">>)
    @@ (<<"base", "public-flags", "compile">> :> <<"-DB">>)
    @@ (<<"base", "public-flags", "link">> :> <<"-ly">>)

\* Flags in build-type slots and platform layers, and one flag (-DA) declared
\* under two kinds
LayeredOptions ==
    (<<"base", "interface-flags", "compile_release">> :> <<"-DA", "-DNDEBUG">>)
    @@ (<<"base", "flags", "compile_debug">> :> <<"-DA">>)
    @@ (<<"linux", "public-flags", "compile">> :> <<"-DB">>)
    @@ (<<"windows", "interface-flags", "link">> :> <<"-lz">>)
    @@ (<<"linux", "flags", "link">> :> <<"-lm">>)
    @@ (<<"base", "public-flags", "compile_debug">> :> <<"-O0">>)

FlagOptionChoices == {EmptyOptions, PlainOptions, LayeredOptions}

FlagEnvironments ==
    {[build_type |-> "Release", platform |-> "linux", hash_seed |-> 0],
     [build_type |-> "Debug", platform |-> "windows", hash_seed |-> NumHashSeeds - 1]}

DeclaredBefore(keys) ==
    [k \in Range(keys) |->
        DistinctSeqs(Range(SubSeq(keys, 1, IndexOf(keys, k) - 1)), MaxDeps)]

InitFlags ==
    /\ \E n \in 0..MaxTargets :
          LET keys == SubSeq(KeyPool, 1, n)
          IN  /\ config \in ConfigsOver({""}, keys, {<<>>}, CompiledTypes,
                                        DeclaredBefore(keys), FlagOptionChoices)
              /\ fs \in Filesystems(keys, {OneSource}, {FALSE})
    /\ environment \in FlagEnvironments
    /\ InitialControl

SpecFlags == InitFlags /\ [][Next]_vars

----------------------------------------------------------------------------
(* Specification of the include directories: the kinds of the targets, the *)
(* directories that source discovery returns, the default include          *)
(* directory and the hash seed vary                                        *)

IncludeTypes == {TypeOf(s_header_only), TypeOf(s_static_library)}

IncludeFileChoices ==
    {FilesOf(<<"main.cpp">>, dirs, public_dirs) :
        dirs \in {<<>>, << <<"w", "src">> >>},
        public_dirs \in {<<>>, << <<"w", "inc">> >>, << <<"w", "api", "..", "inc">> >>}}

IncludeEnvironments ==
    {[build_type |-> "Release", platform |-> "linux", hash_seed |-> 0]}

InitIncludes ==
    /\ \E n \in 0..MaxTargets :
          LET keys == SubSeq(KeyPool, 1, n)
          IN  /\ config \in ConfigsOver({""}, keys, {<<>>}, IncludeTypes,
                                        DeclaredBefore(keys), {EmptyOptions})
              /\ fs \in Filesystems(keys, IncludeFileChoices, BOOLEAN)
    /\ environment \in IncludeEnvironments
    /\ InitialControl

SpecIncludes == InitIncludes /\ [][Next]_vars

----------------------------------------------------------------------------
(* Specification of one call of Compilable.compile: the number of source   *)
(* files of the target, their needs_rebuild flags, force_build, the        *)
(* before-compile script and the size of the pool vary; so do the          *)
(* outcomes of the commands and the interleaving of the workers            *)

MaxSources == 3
MaxWorkers == 2

SourceFiles == <<"a.cpp", "b.cpp", "c.cpp", "d.cpp", "e.cpp">>

\* No project is under construction
NoProject ==
    /\ config = [name |-> "", keys |-> <<>>, defs |-> <<>>, subprojects |-> <<>>]
    /\ environment = DefaultEnvironment
    /\ fs = [files |-> <<>>, root_include_exists |-> FALSE]
    /\ pc = "done"
    /\ exit_code = 0
    /\ exception = ""
    /\ log = <<>>
    /\ target_names = <<>>
    /\ target_list = <<>>
    /\ has_target_list = FALSE
    /\ multiple_targets = FALSE
    /\ pos = 0
    /\ multiple_projects = FALSE
    /\ NoSecondaryCall
    /\ returned = NotCalled

InitCompile ==
    /\ NoProject
    /\ force_build \in BOOLEAN
    /\ before_compile_script \in BOOLEAN
    /\ pool_size \in 1..MaxWorkers
    /\ \E n \in 1..MaxSources :
          buildables \in {Buildables(SubSeq(SourceFiles, 1, n), needs) :
                             needs \in [1..n -> BOOLEAN]}
    /\ needed_buildables = <<>>
    /\ cpc = "entry"
    /\ task_queue = <<>>
    /\ in_progress = [w \in 1..pool_size |-> Idle]
    /\ results = <<>>
    /\ invocations = {}
    /\ failed_commands = {}
    /\ unsuccessful_builds = <<>>

SpecCompile == InitCompile /\ [][NextCompile]_vars

----------------------------------------------------------------------------
(* Specification of the build tree and the link commands: the project      *)
(* name, multiple_projects, the target keys, the kinds of the targets,     *)
(* their output names and link flags vary; a target depends on targets     *)
(* declared before it                                                      *)

\* The first targets of the pool, or two targets whose keys start with
\* 'project'
BuildKeyChoices ==
    {SubSeq(KeyPool, 1, n) : n \in 1..MaxTargets} \cup {<<s_projectx, s_projecty>>}

\* An output name and a link flag
NamedOutput ==
    (<<"output_name", "", "">> :> "out")
    @@ (<<"base", "flags", "link">> :> <<"-lm">>)

InitBuild ==
    /\ \E keys \in BuildKeyChoices :
          /\ config \in ConfigsOver({"", "P"}, keys, {<<>>}, CompiledTypes,
                                    DeclaredBefore(keys), {EmptyOptions, NamedOutput})
          /\ fs \in Filesystems(keys, {OneSource}, {FALSE})
    /\ environment = DefaultEnvironment
    /\ ControlAtStart
    /\ NoSecondaryCall
    /\ returned = NotCalled
    /\ multiple_projects \in BOOLEAN

SpecBuild == InitBuild /\ [][Next]_vars

----------------------------------------------------------------------------
(* Specification of the secondary targets: projects of up to MaxOwners     *)
(* targets of the four kinds; the run requests tests, examples, both or    *)
(* neither; discovery finds up to MaxSecondary sources                     *)

MaxOwners == 2
MaxSecondary == 2

SecondarySources == <<"one.cpp", "sub/one.cpp", "two.cpp", "three.cpp">>

DiscoveryChoices ==
    {SubSeq(SecondarySources, 1, n) :
        n \in 0..(IF MaxSecondary < Len(SecondarySources) THEN MaxSecondary
                                                        ELSE Len(SecondarySources))}

\* tests = {single_executable = false}, examples = {dependencies = ["app"]}
SeparateTests ==
    (<<"tests", "", "">> :> (<<"single_executable", "", "">> :> FALSE))
    @@ (<<"examples", "", "">> :> (<<"dependencies", "", "">> :> <<s_app>>))

\* tests = {single_executable = true}, examples = {dependencies = ["util"]}
GhostExample ==
    (<<"tests", "", "">> :> (<<"single_executable", "", "">> :> TRUE))
    @@ (<<"examples", "", "">> :> (<<"dependencies", "", "">> :> <<s_util>>))

InitSecondary ==
    /\ \E n \in 1..MaxOwners :
          LET keys == SubSeq(KeyPool, 1, n)
          IN  /\ config \in ConfigsOver({""}, keys, {<<>>}, CompiledTypes,
                                        DeclaredBefore(keys),
                                        {EmptyOptions, SeparateTests, GhostExample})
              /\ fs \in Filesystems(keys, {OneSource}, {FALSE})
    /\ environment = DefaultEnvironment
    /\ ControlAtStart
    /\ multiple_projects = FALSE
    /\ environment_tests \in BOOLEAN
    /\ environment_examples \in BOOLEAN
    /\ \E found \in DiscoveryChoices :
          secondary_files = [tests |-> found, examples |-> found]
    /\ test_targets = NotAsked
    /\ example_targets = NotAsked
    /\ spc = "idle"
    /\ returned = NotCalled

SpecSecondary == InitSecondary /\ [][NextSecondary]_vars

----------------------------------------------------------------------------
(* Specification of get_targets: projects with and without a name, with    *)
(* and without targets and subprojects, asked for their targets after      *)
(* construction                                                            *)

SpecQuery == InitAnon /\ [][NextQuery]_vars

----------------------------------------------------------------------------
(* Vocabulary of the properties *)

\* The walk has been computed
WalkComputed == pc \in {"loop", "done", "crashed"}

\* The number of walk entries the loop body has been entered for
Visited == IF pc = "crashed" THEN pos + 1 ELSE pos

\* The positions of the target objects constructed for the named definition
ObjectsNamed(k) == {j \in 1..Len(target_list) : target_list[j].name = k}

Logged(kind, subject) ==
    \E e \in 1..Len(log) : log[e].kind = kind /\ log[e].subject = subject

LoggedKind(kind) == \E e \in 1..Len(log) : log[e].kind = kind

RecognisedKinds == {s_executable, s_shared_library, s_static_library, s_header_only}

Recognised(project_node) ==
    ~project_node.has_type \/ Lower(project_node.target_type) \in RecognisedKinds

\* The variant the selection table names for a definition
TableVariant(project_node, files) ==
    IF project_node.has_type
    THEN CASE Lower(project_node.target_type) = s_executable     -> "Executable"
           [] Lower(project_node.target_type) = s_shared_library -> "SharedLibrary"
           [] Lower(project_node.target_type) = s_static_library -> "StaticLibrary"
           [] Lower(project_node.target_type) = s_header_only    -> "HeaderOnly"
           [] OTHER -> "none"
    ELSE IF files.sourcefiles = <<>> THEN "HeaderOnly" ELSE "Executable"

----------------------------------------------------------------------------
(* Properties of the dependency analysis and the project checks *)

C2_InvalidDependenciesExitFirst ==
    (/\ pc \notin {"start", "validate"}
     /\ \/ find_non_existent_dependencies(config) # <<>>
        \/ find_circular_dependencies(config) # <<>>)
    => /\ pc = "exit"
       /\ exit_code = 1
       /\ target_list = <<>>
       /\ pos = 0

\* C2 witness: construction has ended on a circular dependency between two
\* targets of a project whose dependencies all exist
C2_Witness ==
    /\ pc = "exit"
    /\ LoggedKind("circular_dependencies")
    /\ find_non_existent_dependencies(config) = <<>>
    /\ \E cyc \in Range(find_circular_dependencies(config)) : Len(cyc) >= 2

\* C3: construction fails with the anonymous-project error exactly when the
\* project has no name and its mapping holds both a target definition and a
\* subproject, whatever the targets are called.
C3_AnonymousErrorExactlyWhenMixed ==
    pc # "start" =>
        (LoggedKind("anonymous_project")
         <=> (/\ config.name = ""
              /\ config.keys # <<>>
              /\ config.subprojects # <<>>))

----------------------------------------------------------------------------
(* Properties of the construction loop *)

C5_UnsupportedTypeExits ==
    \A i \in 1..pos :
        ~Recognised(config.defs[target_names[i]]) =>
            /\ exit_code = 1
            /\ pc = "exit"
            /\ pos = i

\* C6: whenever a target under construction lists a dependency that was
\* constructed as an Executable, an error is logged for that target, the
\* process does not end, and the Executable stays in the dependency list
\* the target is constructed with.
C6_ExecutableDependencyLoggedAndKept ==
    WalkComputed =>
        \A i \in 1..Visited :
            LET k == target_names[i]
            IN  \A d \in Range(Dependencies(config, k)) :
                    (\E e \in ObjectsNamed(d) : target_list[e].class = "Executable")
                    => /\ Logged("executable_dependency", k)
                       /\ exit_code = 0
                       /\ \A j \in ObjectsNamed(k) :
                             \E m \in 1..Len(target_list[j].dependency_targets) :
                                 /\ target_list[target_list[j].dependency_targets[m]].name = d
                                 /\ target_list[target_list[j].dependency_targets[m]].class
                                       = "Executable"

----------------------------------------------------------------------------
(* Properties of the flag vectors *)

Sides == {"compile", "link"}

\* The slots of a flags dictionary that count for a side under a build type
ActiveSlots(side, build_type) ==
    IF side = "link" THEN {"link"}
    ELSE {"compile"} \cup
         (CASE build_type = "Release"        -> {"compile_release"}
            [] build_type = "Debug"          -> {"compile_debug"}
            [] build_type = "RelWithDebInfo" -> {"compile_relwithdebinfo"}
            [] build_type = "Coverage"       -> {"compile_coverage"}
            [] OTHER -> {})

\* The flags a definition declares under a kind for a side: those of the
\* top level and of the layer of the current platform, in the slots that
\* count for the build type
Declared(options, flags_kind, side) ==
    UNION {Range(options[key]) :
             key \in {x \in DOMAIN options :
                         /\ x[1] \in {"base", environment.platform}
                         /\ x[2] = flags_kind
                         /\ x[3] \in ActiveSlots(side, environment.build_type)}}

Applied(t, side) ==
    Range(IF side = "compile" THEN t.compile_flags ELSE t.link_flags)

Interface(t, side) ==
    Range(IF side = "compile" THEN t.compile_flags_interface ELSE t.link_flags_interface)

Public(t, side) ==
    Range(IF side = "compile" THEN t.compile_flags_public ELSE t.link_flags_public)

\* The build-type defaults of a side
Defaults(side) ==
    IF side = "compile" THEN Range(BuildTypeDefaults(environment.build_type)) ELSE {}

\* What a target applies to itself by its own definition
OwnApplied(t, side) ==
    Defaults(side) \cup Declared(t.options, "flags", side)
                   \cup Declared(t.options, "public-flags", side)

DependencyObjects(t) ==
    {target_list[t.dependency_targets[m]] : m \in 1..Len(t.dependency_targets)}

\* C7: the flags a target receives from its dependencies follow the
\* propagation table, for compile and link flags alike.  A HeaderOnly target
\* adds their interface flags to its interface vector and their public flags
\* to its public vector and applies neither; a StaticLibrary adds their
\* interface flags to its interface vector and their public flags to its
\* applied flags only; a SharedLibrary or Executable adds both to its applied
\* flags and to neither forwarded vector.
C7_PropagationTable ==
    \A j \in 1..Len(target_list) : \A side \in Sides :
        LET t         == target_list[j]
            received_interface == UNION {Interface(d, side) : d \in DependencyObjects(t)}
            received_public    == UNION {Public(d, side) : d \in DependencyObjects(t)}
            own_interface == Declared(t.options, "interface-flags", side)
            own_public    == Declared(t.options, "public-flags", side)
        IN  CASE t.class = "HeaderOnly" ->
                    /\ Interface(t, side) = own_interface \cup received_interface
                    /\ Public(t, side) = own_public \cup received_public
                    /\ Applied(t, side) = OwnApplied(t, side)
              [] t.class = "StaticLibrary" ->
                    /\ Interface(t, side) = own_interface \cup received_interface
                    /\ Public(t, side) = own_public
                    /\ Applied(t, side) = OwnApplied(t, side) \cup received_public
              [] OTHER ->
                    /\ Interface(t, side) = own_interface
                    /\ Public(t, side) = own_public
                    /\ Applied(t, side) =
                          OwnApplied(t, side) \cup received_interface \cup received_public

\* C7 witness: a HeaderOnly target and a StaticLibrary that declare no flags
\* themselves have each been constructed with a dependency that forwards
\* interface and public flags on both sides, the two sets being disjoint
C7_Witness ==
    /\ pc = "done"
    /\ \A class \in {"HeaderOnly", "StaticLibrary"} :
          \E j \in 1..Len(target_list) :
              /\ target_list[j].class = class
              /\ target_list[j].options = EmptyOptions
              /\ \E d \in DependencyObjects(target_list[j]) : \A side \in Sides :
                    /\ Interface(d, side) # {}
                    /\ Public(d, side) # {}
                    /\ Interface(d, side) \cap Public(d, side) = {}

----------------------------------------------------------------------------
(* Properties of the include directories *)

\* The directories a list of paths names
Directories(paths) == {Resolve(paths[i]) : i \in 1..Len(paths)}

\* The positions of the targets that position j reaches through chains of
\* dependencies; a dependency object sits before the target that holds it
RECURSIVE Reached(_)
Reached(j) ==
    LET direct == {target_list[j].dependency_targets[m] :
                      m \in 1..Len(target_list[j].dependency_targets)}
    IN  direct \cup UNION {Reached(d) : d \in {x \in direct : x < j}}

\* C9: the private include path of a target holds every public include
\* directory of each of its dependencies and every private include
\* directory of each HeaderOnly dependency; its public include list holds
\* every public include directory of each dependency; hence a public
\* include directory of a target is in the private include path of every
\* target that reaches it through a chain of dependencies.
C9_IncludeDirectoriesOfDependencies ==
    \A j \in 1..Len(target_list) :
        LET t == target_list[j]
        IN  /\ \A d \in DependencyObjects(t) :
                  /\ Directories(d.include_directories_public)
                        \subseteq Directories(t.include_directories)
                  /\ Range(d.include_directories_public)
                        \subseteq Range(t.include_directories_public)
                  /\ d.class = "HeaderOnly" =>
                        Directories(d.include_directories)
                            \subseteq Directories(t.include_directories)
            /\ \A r \in Reached(j) :
                  Directories(target_list[r].include_directories_public)
                      \subseteq Directories(t.include_directories)

\* C9 witness: a target reaches, through a HeaderOnly dependency that has a
\* private include directory of its own, a third target that has a public
\* include directory written in an unresolved form
C9_Witness ==
    \E j \in 1..Len(target_list) :
        \E d \in DependencyObjects(target_list[j]) :
            /\ d.class = "HeaderOnly"
            /\ <<"w", "src">> \in Range(d.include_directories)
            /\ \E u \in DependencyObjects(d) :
                  /\ u \notin DependencyObjects(target_list[j])
                  /\ <<"w", "api", "..", "inc">> \in Range(u.include_directories_public)

\* C10: after construction the include directories of a target are free of
\* duplicates after path resolution, in the private include path, in the -I
\* options made from it, and in the public include list that is forwarded.
C10_IncludeDirectoriesDuplicateFree ==
    \A j \in 1..Len(target_list) :
        LET t == target_list[j]
        IN  /\ NoDup(ResolveAll(t.include_directories))
            /\ NoDup(ResolveAll(t.include_directories_public))
            /\ t.class \in Compilables =>
                  LET command == IncludeDirectoriesCommand(t)
                  IN  \A a, b \in 1..Len(command) :
                         (a # b /\ command[a] # "-I" /\ command[b] # "-I")
                             => command[a] # command[b]

----------------------------------------------------------------------------
(* Properties of Compilable.compile *)

Names(bs) == {bs[i].name : i \in 1..Len(bs)}

\* The commands of a kind that have been started
Started(function) == {inv[2] : inv \in {x \in invocations : x[1] = function}}

\* The commands of a kind that a worker is still running
Running(function) ==
    {in_progress[w].buildable.name :
        w \in {x \in DOMAIN in_progress : in_progress[x].function = function}}

\* The commands of a kind that are still waiting in the pool
Waiting(function) ==
    {task_queue[i].buildable.name :
        i \in {x \in 1..Len(task_queue) : task_queue[x].function = function}}

\* The buildables that compile has to submit
ToSubmit ==
    IF force_build THEN Names(buildables)
    ELSE {buildables[i].name : i \in {x \in 1..Len(buildables) : buildables[x].needs_rebuild}}

\* C11: within one call of compile, before the compile command of any
\* source unit is started, the depfile generation of every needed unit has
\* been started and has ended, and its result has been handed back to the
\* driver, whatever the number of workers and their interleaving.
C11_DepfilesBeforeCompiles ==
    Started("compile_single_source") # {} =>
        /\ cpc \in {"compile", "returned"}
        /\ Names(needed_buildables) \subseteq Started("generate_depfile_single_source")
        /\ Running("generate_depfile_single_source") = {}
        /\ Waiting("generate_depfile_single_source") = {}
        /\ \A i \in 1..Len(needed_buildables) :
              needed_buildables[i].depfile_failed
              <=> <<"generate_depfile_single_source", needed_buildables[i].name>>
                     \in failed_commands

\* C11 witness: two workers run compile commands at the same time for a
\* target of three needed units, one of whose depfile generations failed
C11_Witness ==
    /\ cpc = "compile"
    /\ pool_size = 2
    /\ Len(needed_buildables) = 3
    /\ Cardinality(Running("compile_single_source")) = 2
    /\ \E i \in 1..3 : needed_buildables[i].depfile_failed

\* C12: compile submits to the pool exactly the buildables whose
\* needs_rebuild is set when force_build is unset, and every buildable when
\* it is set; when there is none it returns without starting the
\* before-compile script, a depfile generation or a compile command.
C12_SubmitsExactlyNeeded ==
    /\ cpc # "entry" => Names(needed_buildables) = ToSubmit
    /\ Started("generate_depfile_single_source") \subseteq ToSubmit
    /\ Started("compile_single_source") \subseteq ToSubmit
    /\ cpc = "returned" =>
          /\ Started("generate_depfile_single_source") = ToSubmit
          /\ Started("compile_single_source") = ToSubmit
          /\ ToSubmit = {} => invocations = {}

\* C12 witness: compile has returned for a target that names a
\* before-compile script, without force_build, where one buildable needed
\* a rebuild and another did not
C12_Witness ==
    /\ cpc = "returned"
    /\ ~force_build
    /\ before_compile_script
    /\ ToSubmit # {}
    /\ ToSubmit # Names(buildables)

\* C19: the failure of a unit in depfile generation or in compilation keeps
\* no submitted unit from going through both phases, and after the call
\* unsuccessful_builds holds exactly the submitted units one of whose two
\* commands failed, so that it is non-empty iff a submitted unit failed.
C19_FailuresAreCollected ==
    (cpc = "returned" /\ ToSubmit # {}) =>
        /\ Started("generate_depfile_single_source") = ToSubmit
        /\ Started("compile_single_source") = ToSubmit
        /\ Names(unsuccessful_builds) = {c[2] : c \in failed_commands}
        /\ Len(unsuccessful_builds) = Cardinality(Names(unsuccessful_builds))
        /\ \A i \in 1..Len(unsuccessful_builds) :
              /\ unsuccessful_builds[i].depfile_failed
                 <=> <<"generate_depfile_single_source", unsuccessful_builds[i].name>>
                        \in failed_commands
              /\ unsuccessful_builds[i].compilation_failed
                 <=> <<"compile_single_source", unsuccessful_builds[i].name>>
                        \in failed_commands

\* C19 witness: of three submitted units one failed in depfile generation
\* only, one in compilation only, and one in neither
C19_Witness ==
    /\ cpc = "returned"
    /\ Len(needed_buildables) = 3
    /\ Len(unsuccessful_builds) = 2
    /\ \E i \in 1..2 : /\ unsuccessful_builds[i].depfile_failed
                       /\ ~unsuccessful_builds[i].compilation_failed
    /\ \E i \in 1..2 : /\ ~unsuccessful_builds[i].depfile_failed
                       /\ unsuccessful_builds[i].compilation_failed

----------------------------------------------------------------------------
(* Properties of the build tree and the link commands *)

\* The build directory of the project under construction
ProjectBuild ==
    IF multiple_projects /\ config.name # ""
    THEN Append(BuildDirectory, config.name)
    ELSE BuildDirectory

\* C13: the build directory of every target of a project is
\* <project_build>/<target_name> when the project defines more than one
\* target, and <project_build> when it defines exactly one, whether or not
\* the project has a name.
C13_BuildDirectoryByTargetCount ==
    \A j \in 1..Len(target_list) :
        target_list[j].build_directory =
            IF Len(config.keys) > 1
            THEN Append(ProjectBuild, AsText(target_list[j].name))
            ELSE ProjectBuild

\* The words of a command line from position a to position b
Part(command, a, b) == SubSeq(command, a, b)

\* C14: the link command built at construction follows the template of the
\* kind.  Executable: the C++ driver, -o, the output file, the own object
\* files in source order, -L <output folder> per dependency that is not
\* HeaderOnly, the link flags, -l<outname> per dependency that is not
\* HeaderOnly, in dependency order.  SharedLibrary: the same with -shared
\* before -o.  StaticLibrary: the archiver, rc, the output file, the own
\* object files, the link flags, the object files of every dependency that
\* is not HeaderOnly, and no -L or -l.
C14_LinkCommandTemplate ==
    \A j \in 1..Len(target_list) :
        LET t      == target_list[j]
            cmd    == t.link_command
            all    == [m \in 1..Len(t.dependency_targets) |->
                          target_list[t.dependency_targets[m]]]
            linked == SelectSeq(all, LAMBDA d : d.class # "HeaderOnly")
            own    == [i \in 1..Len(t.source_files) |->
                          t.object_directory \o <<t.source_files[i], ".o">>]
            flags  == [i \in 1..Len(t.link_flags) |-> <<t.link_flags[i]>>]
            head   == CASE t.class = "Executable"    -> << <<"clang++">>, <<"-o">> >>
                        [] t.class = "SharedLibrary" ->
                              << <<"clang++">>, <<"-shared">>, <<"-o">> >>
                        [] t.class = "StaticLibrary" -> << <<"llvm-ar">>, <<"rc">> >>
                        [] OTHER -> <<>>
            h      == Len(head) + 1
            o      == h + Len(own)
            n      == Len(linked)
            f      == Len(flags)
        IN  t.class \in Compilables =>
              /\ Part(cmd, 1, Len(head)) = head
              /\ cmd[h] = t.outfile
              /\ Part(cmd, h + 1, o) = own
              /\ IF t.class = "StaticLibrary"
                 THEN /\ Part(cmd, o + 1, o + f) = flags
                      /\ Part(cmd, o + f + 1, Len(cmd))
                            = Concat([i \in 1..n |-> linked[i].object_files])
                      /\ \A i \in 1..Len(cmd) : cmd[i][1] \notin {"-L", "-l"}
                 ELSE /\ Len(cmd) = o + 2 * n + f + n
                      /\ \A i \in 1..n :
                            /\ cmd[o + 2 * i - 1] = <<"-L">>
                            /\ cmd[o + 2 * i] = linked[i].output_folder
                            /\ cmd[o + 2 * n + f + i] = <<"-l", linked[i].outname>>
                      /\ Part(cmd, o + 2 * n + 1, o + 2 * n + f) = flags

\* C14 witness: an Executable with link flags has been constructed on a
\* StaticLibrary and a HeaderOnly dependency, the StaticLibrary on a
\* SharedLibrary with an output name of its own
C14_Witness ==
    \E j \in 1..Len(target_list) :
        LET t == target_list[j]
        IN  /\ t.class = "Executable"
            /\ t.link_flags # <<>>
            /\ \E a, b \in 1..Len(t.dependency_targets) :
                  /\ target_list[t.dependency_targets[a]].class = "HeaderOnly"
                  /\ target_list[t.dependency_targets[b]].class = "StaticLibrary"

----------------------------------------------------------------------------
(* Properties of the error reports and of repeated construction *)

\* C20: when the analyser reports circular dependencies, the error logged
\* before the exit names the participating edges: one 'circular dependency'
\* line for each reported (target, dependency) edge of each cycle, and at
\* least one line.
C20_CircularErrorNamesEdges ==
    \A e \in 1..Len(log) :
        log[e].kind = "circular_dependencies" =>
            /\ log[e].detail # <<>>
            /\ log[e].detail = Concat(find_circular_dependencies(config))

\* The target list that the construction loop builds from the first n
\* entries of the walk in a process whose environment is env
RECURSIVE ConstructedAgain(_, _)
ConstructedAgain(n, env) ==
    IF n = 0 THEN <<>>
    ELSE LET tl           == ConstructedAgain(n - 1, env)
             target_name  == target_names[n]
             project_node == config.defs[target_name]
             files        == fs.files[target_name]
             positions    == DependencyPositions(target_names, project_node)
             classes      == SelectedClasses(project_node, files)
         IN  tl \o [i \in 1..Len(classes) |->
                       NewTarget(classes[i], target_name, files, project_node.options,
                                 positions, tl, env, fs.root_include_exists,
                                 TargetBuildDir(config, multiple_projects,
                                                multiple_targets, target_name))]

\* The environment of another process: the same settings, another hash seed
OtherProcess(seed) == [environment EXCEPT !.hash_seed = seed]

\* The command vectors of a target: what goes into the compile and depfile
\* commands of each of its source units (the -I options and the compile
\* flags), and its link command
CommandVectors(t) ==
    [include_strings |-> IF t.class \in Compilables THEN IncludeDirectoriesCommand(t)
                                                    ELSE <<>>,
     compile_flags   |-> DEFAULT_COMPILE_FLAGS \o t.compile_flags,
     link_command    |-> t.link_command]

\* C17: constructing the targets a second time from the same configuration
\* and the same discovery results gives the same command vectors, element
\* by element, whichever process the second construction runs in.
C17_ConstructionIsRepeatable ==
    pc = "done" =>
        \A seed \in 0..(NumHashSeeds - 1) :
            LET again == ConstructedAgain(Len(target_names), OtherProcess(seed))
            IN  /\ Len(again) = Len(target_list)
                /\ \A j \in 1..Len(target_list) :
                      CommandVectors(again[j]) = CommandVectors(target_list[j])

\* The second construction builds what the first one built when it runs in
\* the same process
SameProcessSameTargets ==
    pc = "done" => ConstructedAgain(Len(target_names), environment) = target_list

----------------------------------------------------------------------------
(* Properties of the secondary targets and of the build tree *)

\* The owner at position j declares tests.single_executable = false
DeclaresSeparateTests(j) ==
    LET options == target_list[j].options
    IN  /\ <<"tests", "", "">> \in DOMAIN options
        /\ <<"single_executable", "", "">> \in DOMAIN options[<<"tests", "", "">>]
        /\ options[<<"tests", "", "">>][<<"single_executable", "", "">>] = FALSE

\* The entry is an Executable of that name built from exactly those sources
IsExecutableOf(entry, name, sourcefiles) ==
    /\ entry.class = "Executable"
    /\ entry.name = name
    /\ entry.source_files = sourcefiles

\* C15: when the run requested the tests and discovery found test sources,
\* the test list of a target that has created its test targets holds only
\* synthesised Executables: by default one, named 'test', built from all
\* the discovered sources; with single_executable = false exactly one per
\* discovered source, named 'test_<stem>'.  Whatever the kind of the owner.
C15_TestListHoldsOnlyTestExecutables ==
    \A j \in DOMAIN test_targets :
        (environment_tests /\ secondary_files.tests # <<>>) =>
            LET list    == test_targets[j]
                sources == secondary_files.tests
            IN  IF DeclaresSeparateTests(j)
                THEN /\ Len(list) = Len(sources)
                     /\ \A i \in 1..Len(sources) :
                           IsExecutableOf(list[i], <<"test_", Stem(sources[i])>>,
                                          <<sources[i]>>)
                ELSE /\ Len(list) = 1
                     /\ IsExecutableOf(list[1], <<"test">>, sources)

\* C16: when the run requested the examples and discovery found example
\* sources, create_example_targets returns normally and leaves exactly one
\* Executable per discovered source, named 'example_<stem>', whatever the
\* kind of the owner and whatever example dependencies it declares.
C16_ExampleCreationCompletes ==
    \A j \in DOMAIN example_targets :
        (environment_examples /\ secondary_files.examples # <<>>) =>
            LET list    == example_targets[j]
                sources == secondary_files.examples
            IN  /\ spc # "crashed"
                /\ exception = ""
                /\ Len(list) = Len(sources)
                /\ \A i \in 1..Len(sources) :
                      IsExecutableOf(list[i], <<"example_", Stem(sources[i])>>,
                                     <<sources[i]>>)

\* The entries of a secondary list that the call has constructed
Synthesised(list) == SelectSeq(list, LAMBDA e : e \notin Range(target_list))

\* Every target of the build: the primary targets, then the test and example
\* targets constructed for them
BuildTargets ==
    target_list
    \o Concat([j \in 1..Len(target_list) |->
                  (IF j \in DOMAIN test_targets
                   THEN Synthesised(test_targets[j]) ELSE <<>>)
                  \o (IF j \in DOMAIN example_targets
                      THEN Synthesised(example_targets[j]) ELSE <<>>)])

\* The path p is q or a directory above q
IsAtOrAbove(p, q) == Len(p) <= Len(q) /\ SubSeq(q, 1, Len(p)) = p

\* The object files and the output file that a target writes
WrittenFiles(t) ==
    IF t.class \in Compilables THEN Range(t.object_files) \cup {t.outfile} ELSE {}

\* No two targets of the build write the same file
WritesAreDisjoint ==
    \A a, b \in 1..Len(BuildTargets) :
        a < b => WrittenFiles(BuildTargets[a]) \cap WrittenFiles(BuildTargets[b]) = {}

\* C18: two distinct targets of one build, the test and example targets of
\* a primary target included, have distinct build directories, neither
\* inside the other, and write no file in common.
C18_BuildDirectoriesAreDisjoint ==
    /\ \A a, b \in 1..Len(BuildTargets) :
          a # b => ~IsAtOrAbove(BuildTargets[a].build_directory,
                                BuildTargets[b].build_directory)
    /\ WritesAreDisjoint

----------------------------------------------------------------------------
(* Properties of the dependency lookup, of get_targets and of the include  *)
(* paths                                                                   *)

\* C21: at every point of the construction loop, no dependency lookup has
\* failed, and every constructed target holds, for each name of the
\* dependencies list of its definition, the constructed target of that
\* name, in the order of the list.
C21_DependenciesAreTheNamedTargets ==
    /\ exception # "IndexError"
    /\ \A j \in 1..Len(target_list) :
          LET declared == config.defs[target_list[j].name].dependencies
              found    == target_list[j].dependency_targets
          IN  /\ Len(found) = Len(declared)
              /\ \A i \in 1..Len(declared) :
                    /\ found[i] \in 1..Len(target_list)
                    /\ target_list[found[i]].name = declared[i]

\* C22: when the construction of a Project has returned normally, a call of
\* get_targets returns the list of its constructed targets; for a project
\* without direct target definitions it returns the empty list.
C22_GetTargetsReturnsTheList ==
    returned.called =>
        /\ ~returned.raised
        /\ returned.value = IF TargetsConfig(config) = <<>> THEN <<>> ELSE target_list

\* C23: after construction, every directory of the public include list of a
\* target is, after path resolution, a directory of its own private include
\* path: the directories its definition declares public, those it forwards
\* from its dependencies, and the default <root>/include when it exists.
C23_PublicIncludesAreOwnIncludes ==
    \A j \in 1..Len(target_list) :
        Directories(target_list[j].include_directories_public)
            \subseteq Directories(target_list[j].include_directories)

====
